---- MODULE Spec2Model ----
(***************************************************************************)
(* Model of the googleReviewScraper HTTP function and of the text          *)
(* transformations it applies to a fetched page.                           *)
(*                                                                         *)
(* Two handler sources exist in the repository:                            *)
(*   src/functions/index.js  (extractMetaContent / parseReviewTitle /      *)
(*                            getReviewContent helpers)                    *)
(*   src/unnamed/part_000    (inline extraction, LANGUAGE_PATTERNS table)  *)
(*                                                                         *)
(* A JavaScript string is modelled as the sequence of its UTF-16 code      *)
(* units (natural numbers below 65536).                                    *)
(***************************************************************************)
EXTENDS Integers, Sequences, FiniteSets, TLC

VARIABLES
    variant,      \* which handler source serves the request
    req,          \* the inbound request: [method, url]
    pc,           \* position of the handler
    headers,      \* response headers set so far
    fetches,      \* outbound fetches issued, in order
    fetched,      \* outcome of the outbound fetch
    responses,    \* responses sent, in order
    locals,       \* the handler's local variables once the page is parsed
    callFn,       \* pure-function harness: the function applied
    callArgs,     \* pure-function harness: its arguments
    returned,     \* pure-function harness: whether it has returned
    ret           \* pure-function harness: the value returned

vars == <<variant, req, pc, headers, fetches, fetched, responses, locals,
          callFn, callArgs, returned, ret>>

handlerVars == <<variant, req, pc, headers, fetches, fetched, responses, locals>>
callVars == <<callFn, callArgs, returned, ret>>

(***************************************************************************)
(* Code units that the source names in its patterns and tables.            *)
(***************************************************************************)
AMP == 38
HASH == 35
SEMI == 59
QUOT == 34
APOS == 39
GT == 62
HYPHEN == 45
SPACE == 32
STAR == 9733
EMPTYSTAR == 9734
Uint16 == 65536

(***************************************************************************)
(* Generic string helpers (String.prototype semantics).                    *)
(***************************************************************************)
\* The least index j >= i with t[j] = c, or 0 when there is none.
RECURSIVE IndexFrom(_, _, _)
IndexFrom(t, c, i) ==
    IF i > Len(t) THEN 0
    ELSE IF t[i] = c THEN i
    ELSE IndexFrom(t, c, i + 1)

\* The substring t[i..j] (empty when j < i).
Slice(t, i, j) == IF j < i THEN <<>> ELSE SubSeq(t, i, j)

\* \d
IsDigit(c) == c \in 48..57

\* Line terminators: the characters the regular expression "." does not match.
IsLineTerminator(c) == c \in {10, 13, 8232, 8233}

\* WhiteSpace and LineTerminator code units, which String.prototype.trim
\* removes and \s matches.
IsWhiteSpace(c) ==
    c \in {9, 10, 11, 12, 13, 32, 160, 5760, 8232, 8233, 8239, 8287, 12288, 65279}
    \/ c \in 8192..8202

RECURSIVE TrimStart(_)
TrimStart(t) ==
    IF t # <<>> /\ IsWhiteSpace(Head(t)) THEN TrimStart(Tail(t)) ELSE t

RECURSIVE TrimEnd(_)
TrimEnd(t) ==
    IF t # <<>> /\ IsWhiteSpace(t[Len(t)])
    THEN TrimEnd(SubSeq(t, 1, Len(t) - 1))
    ELSE t

\* String.prototype.trim
Trim(t) == TrimEnd(TrimStart(t))

\* ToNumber of a string of decimal digits.
RECURSIVE DigitsValue(_)
DigitsValue(ds) ==
    IF ds = <<>> THEN 0
    ELSE 10 * DigitsValue(SubSeq(ds, 1, Len(ds) - 1)) + (ds[Len(ds)] - 48)

\* String.fromCharCode(n): one code unit, ToUint16(n).
FromCharCode(n) == <<n % Uint16>>

(***************************************************************************)
(* decodeHTMLEntities                                                      *)
(***************************************************************************)
\* The table of named references.
entities ==
    (<<38, 97, 109, 112, 59>> :> <<38>>)                  \* '&amp;': '&'
 @@ (<<38, 108, 116, 59>> :> <<60>>)                      \* '&lt;': '<'
 @@ (<<38, 103, 116, 59>> :> <<62>>)                      \* '&gt;': '>'
 @@ (<<38, 113, 117, 111, 116, 59>> :> <<34>>)            \* '&quot;': '"'
 @@ (<<38, 35, 51, 57, 59>> :> <<39>>)                    \* '&#39;': "'"
 @@ (<<38, 110, 98, 115, 112, 59>> :> <<32>>)             \* '&nbsp;': ' '
 @@ (<<38, 97, 112, 111, 115, 59>> :> <<39>>)             \* '&apos;': "'"
 @@ (<<38, 35, 120, 50, 70, 59>> :> <<47>>)               \* '&#x2F;': '/'
 @@ (<<38, 35, 120, 50, 55, 59>> :> <<39>>)               \* '&#x27;': "'"
 @@ (<<38, 35, 120, 54, 48, 59>> :> <<96>>)               \* '&#x60;': '`'
 @@ (<<38, 108, 100, 113, 117, 111, 59>> :> <<34>>)       \* '&ldquo;': '"'
 @@ (<<38, 114, 100, 113, 117, 111, 59>> :> <<34>>)       \* '&rdquo;': '"'
 @@ (<<38, 114, 115, 113, 117, 111, 59>> :> <<39>>)       \* '&rsquo;': '\''
 @@ (<<38, 108, 115, 113, 117, 111, 59>> :> <<39>>)       \* '&lsquo;': '\''
 @@ (<<38, 110, 100, 97, 115, 104, 59>> :> <<8211>>)      \* '&ndash;': en dash
 @@ (<<38, 109, 100, 97, 115, 104, 59>> :> <<8212>>)      \* '&mdash;': em dash

\* entity.match(/&#(\d+);/) on a token "&...;" whose only ';' is its last
\* character: the index of the "&#" that is followed by digits up to that
\* ';', or 0.  The pattern is not anchored, so the "&#" need not be the
\* start of the token.
NumericMatchAt(entity) ==
    LET n == Len(entity)
        ok(k) == /\ entity[k] = AMP
                 /\ entity[k + 1] = HASH
                 /\ k + 2 <= n - 1
                 /\ \A d \in (k + 2)..(n - 1) : IsDigit(entity[d])
    IN  IF \E k \in 1..(n - 3) : ok(k)
        THEN CHOOSE k \in 1..(n - 3) : ok(k) /\ \A m \in 1..(k - 1) : ~ok(m)
        ELSE 0

\* The replacement callback of decodeHTMLEntities.
ReplaceEntity(entity) ==
    IF entity \in DOMAIN entities THEN entities[entity]
    ELSE LET k == NumericMatchAt(entity) IN
         IF k # 0
         THEN FromCharCode(DigitsValue(SubSeq(entity, k + 2, Len(entity) - 1)))
         ELSE entity

\* text.replace(/&[^;]+;/g, callback), scanning from index i.  A match starts
\* at an '&' and runs to the first ';' after it, with at least one character
\* in between; the scan resumes after the match.
RECURSIVE ReplaceFrom(_, _)
ReplaceFrom(text, i) ==
    IF i > Len(text) THEN <<>>
    ELSE IF text[i] # AMP THEN <<text[i]>> \o ReplaceFrom(text, i + 1)
    ELSE LET j == IndexFrom(text, SEMI, i + 1) IN
         IF j = 0 THEN SubSeq(text, i, Len(text))
         ELSE IF j = i + 1 THEN <<text[i]>> \o ReplaceFrom(text, i + 1)
         ELSE ReplaceEntity(SubSeq(text, i, j)) \o ReplaceFrom(text, j + 1)

decodeHTMLEntities(text) ==
    IF text = <<>> THEN <<>> ELSE ReplaceFrom(text, 1)

(***************************************************************************)
(* Regular-expression building blocks.                                     *)
(***************************************************************************)
\* Canonicalize of the "i" flag (no "u" flag) on Basic Latin and Latin-1:
\* the upper-case form of a letter that has one of a single code unit
\* (the sharp s, 223, has none); code units above Latin-1 are left as they
\* are, and none of them canonicalizes to a character of the patterns.
Canon(c) ==
    IF c \in 97..122 THEN c - 32
    ELSE IF c \in 224..254 /\ c # 247 THEN c - 32
    ELSE IF c = 255 THEN 376
    ELSE IF c = 181 THEN 924
    ELSE c

\* The literal lit occurs in t at index i (case-sensitive).
MatchesAt(t, i, lit) ==
    /\ i >= 1
    /\ i + Len(lit) - 1 <= Len(t)
    /\ \A k \in 1..Len(lit) : t[i + k - 1] = lit[k]

\* The literal lit occurs in t at index i under the "i" flag.
MatchesAtI(t, i, lit) ==
    /\ i >= 1
    /\ i + Len(lit) - 1 <= Len(t)
    /\ \A k \in 1..Len(lit) : Canon(t[i + k - 1]) = Canon(lit[k])

\* The least element of a non-empty set of indices.
Least(S) == CHOOSE x \in S : \A y \in S : x <= y
Greatest(S) == CHOOSE x \in S : \A y \in S : x >= y

\* No line terminator in t[i..j]: ".*" can span exactly such a stretch.
DotSpan(t, i, j) == \A k \in i..j : ~IsLineTerminator(t[k])

MetaOpen == <<60, 109, 101, 116, 97>>                         \* '<meta'
ItemPropName == <<105, 116, 101, 109, 112, 114, 111, 112, 61, 34, 110, 97, 109, 101, 34>>  \* 'itemprop="name"'
ItemPropDescription == <<105, 116, 101, 109, 112, 114, 111, 112, 61, 34, 100, 101, 115, 99, 114, 105, 112, 116, 105, 111, 110, 34>>  \* 'itemprop="description"'
ContentEq == <<99, 111, 110, 116, 101, 110, 116, 61>>         \* 'content='
HtmlOpen == <<60, 104, 116, 109, 108>>                        \* '<html'
LangEq == <<108, 97, 110, 103, 61, 34>>                       \* 'lang="'
LangEn == <<101, 110>>                                        \* 'en'
LangDe == <<100, 101>>                                        \* 'de'

(***************************************************************************)
(* extractMetaContent (src/functions/index.js)                             *)
(***************************************************************************)
\* html.match(new RegExp(`<meta[^>]*itemprop="..."[^>]*>`, 'i'))?.[0] || ''
\* A match starts at a "<meta" whose first following '>' comes after an
\* occurrence of the itemprop attribute; it ends at that '>'.
MetaTag(html, itemprop) ==
    LET close(i) == IndexFrom(html, GT, i + Len(MetaOpen))
        ok(i) == /\ MatchesAtI(html, i, MetaOpen)
                 /\ close(i) # 0
                 /\ \E k \in (i + Len(MetaOpen))..(close(i) - Len(itemprop)) :
                        MatchesAtI(html, k, itemprop)
        starts == {i \in 1..Len(html) : ok(i)}
    IN  IF starts = {} THEN <<>>
        ELSE SubSeq(html, Least(starts), close(Least(starts)))

\* metaTag.match(/content=(['"])(.*?)\1/): [found, value].  The value runs
\* from the opening quote to the next occurrence of the same quote, and may
\* hold no line terminator.
ContentMatch(metaTag) ==
    LET open(p) == p + Len(ContentEq)
        close(p) == IndexFrom(metaTag, metaTag[open(p)], open(p) + 1)
        ok(p) == /\ MatchesAt(metaTag, p, ContentEq)
                 /\ open(p) <= Len(metaTag)
                 /\ metaTag[open(p)] \in {APOS, QUOT}
                 /\ close(p) # 0
                 /\ DotSpan(metaTag, open(p) + 1, close(p) - 1)
        starts == {p \in 1..Len(metaTag) : ok(p)}
    IN  IF starts = {} THEN [found |-> FALSE, value |-> <<>>]
        ELSE [found |-> TRUE,
              value |-> Slice(metaTag, open(Least(starts)) + 1,
                              close(Least(starts)) - 1)]

extractMetaContent(html, itemprop) ==
    LET contentMatch == ContentMatch(MetaTag(html, itemprop))
    IN  IF contentMatch.found THEN decodeHTMLEntities(contentMatch.value)
        ELSE <<>>

(***************************************************************************)
(* parseReviewTitle (src/functions/index.js)                               *)
(***************************************************************************)
GermanPrefix == <<71, 111, 111, 103, 108, 101, 45, 82, 101, 122, 101, 110, 115, 105, 111, 110, 32, 252, 98, 101, 114, 32>>  \* 'Google-Rezension \xfcber '
GermanConnector == <<32, 118, 111, 110, 32>>                  \* ' von '
EnglishPrefix == <<71, 111, 111, 103, 108, 101, 32, 114, 101, 118, 105, 101, 119, 32, 111, 102, 32>>  \* 'Google review of '
EnglishConnector == <<32, 98, 121, 32>>                       \* ' by '

\* title.match(/<prefix>(.*?)<connector>(.*)/i) or, with ignoreCase FALSE,
\* the same pattern without the flag: [found, g1, g2].  The first group is
\* lazy: it ends at the first connector after the prefix; the second group
\* runs to the end of the line.
TemplateMatch(title, prefix, connector, ignoreCase) ==
    LET at(i, lit) == IF ignoreCase THEN MatchesAtI(title, i, lit)
                      ELSE MatchesAt(title, i, lit)
        g1(i) == i + Len(prefix)
        conns(i) == {c \in g1(i)..Len(title) :
                        at(c, connector) /\ DotSpan(title, g1(i), c - 1)}
        ok(i) == at(i, prefix) /\ conns(i) # {}
        starts == {i \in 1..Len(title) : ok(i)}
    IN  IF starts = {} THEN [found |-> FALSE, g1 |-> <<>>, g2 |-> <<>>]
        ELSE LET i == Least(starts)
                 c == Least(conns(i))
                 g2 == c + Len(connector)
                 ends == {e \in g2..Len(title) : IsLineTerminator(title[e])}
                 last == IF ends = {} THEN Len(title) ELSE Least(ends) - 1
             IN  [found |-> TRUE,
                  g1 |-> Slice(title, g1(i), c - 1),
                  g2 |-> Slice(title, g2, last)]

\* A variant that falls back to the whole title when no template matches.
parseReviewTitleFallback(title) ==
    LET germanMatch == TemplateMatch(title, GermanPrefix, GermanConnector, TRUE)
        englishMatch == TemplateMatch(title, EnglishPrefix, EnglishConnector, TRUE)
    IN  IF germanMatch.found
        THEN [businessName |-> Trim(germanMatch.g1),
              reviewerName |-> Trim(germanMatch.g2)]
        ELSE IF englishMatch.found
        THEN [businessName |-> Trim(englishMatch.g1),
              reviewerName |-> Trim(englishMatch.g2)]
        ELSE [businessName |-> Trim(title), reviewerName |-> <<>>]

parseReviewTitle(title) ==
    LET germanMatch == TemplateMatch(title, GermanPrefix, GermanConnector, TRUE)
        englishMatch == TemplateMatch(title, EnglishPrefix, EnglishConnector, TRUE)
    IN  IF germanMatch.found
        THEN [businessName |-> Trim(germanMatch.g1),
              reviewerName |-> Trim(germanMatch.g2)]
        ELSE IF englishMatch.found
        THEN [businessName |-> Trim(englishMatch.g1),
              reviewerName |-> Trim(englishMatch.g2)]
        ELSE [businessName |-> <<>>, reviewerName |-> <<>>]

(***************************************************************************)
(* getReviewContent (src/functions/index.js)                               *)
(***************************************************************************)
PlaceholderDe == <<69, 115, 32, 104, 97, 110, 100, 101, 108, 116, 32, 115, 105, 99, 104, 32, 117, 109, 32, 101, 105, 110, 101, 32, 83, 116, 101, 114, 110, 101, 45, 66, 101, 119, 101, 114, 116, 117, 110, 103, 32, 111, 104, 110, 101, 32, 66, 101, 103, 114, 252, 110, 100, 117, 110, 103>>  \* 'Es handelt sich um eine Sterne-Bewertung ohne Begr\xfcndung'
PlaceholderEn == <<84, 104, 105, 115, 32, 105, 115, 32, 97, 32, 115, 116, 97, 114, 32, 114, 97, 116, 105, 110, 103, 32, 119, 105, 116, 104, 111, 117, 116, 32, 97, 110, 121, 32, 114, 101, 118, 105, 101, 119, 32, 116, 101, 120, 116>>  \* 'This is a star rating without any review text'

Placeholder(language) ==
    IF language = LangDe THEN PlaceholderDe ELSE PlaceholderEn

\* s.replace(/[★☆]/g, '')
RECURSIVE StripStars(_)
StripStars(s) ==
    IF s = <<>> THEN <<>>
    ELSE IF Head(s) \in {STAR, EMPTYSTAR} THEN StripStars(Tail(s))
    ELSE <<Head(s)>> \o StripStars(Tail(s))

\* cleanDescription.match(/^"(.*?)"$/): [found, inner].  Without the "m"
\* flag the anchors are the ends of the string, so the match is the whole
\* string: a '"' first, a '"' last, and no line terminator in between.
QuoteMatch(s) ==
    IF /\ Len(s) >= 2
       /\ s[1] = QUOT
       /\ s[Len(s)] = QUOT
       /\ DotSpan(s, 2, Len(s) - 1)
    THEN [found |-> TRUE, inner |-> Slice(s, 2, Len(s) - 1)]
    ELSE [found |-> FALSE, inner |-> <<>>]

getReviewContent(description, language) ==
    LET cleanDescription == Trim(StripStars(description))
        quoteMatch == QuoteMatch(cleanDescription)
    IN  IF cleanDescription = <<>> THEN Placeholder(language)
        ELSE IF quoteMatch.found THEN Trim(quoteMatch.inner)
        ELSE IF cleanDescription # <<>> THEN cleanDescription
        ELSE Placeholder(language)

(***************************************************************************)
(* Page language and rating (both handlers)                                *)
(***************************************************************************)
\* html.match(/<html[^>]*lang="([^"]*)"/): [found, value].  [^>]* is greedy:
\* of the occurrences of lang=" reachable from "<html" without crossing a
\* '>' and followed by a closing '"', the last one is taken.
LangMatch(html) ==
    LET from(i) == i + Len(HtmlOpen)
        attrs(i) == {k \in from(i)..Len(html) :
                        /\ MatchesAt(html, k, LangEq)
                        /\ \A g \in from(i)..(k - 1) : html[g] # GT
                        /\ IndexFrom(html, QUOT, k + Len(LangEq)) # 0}
        ok(i) == MatchesAt(html, i, HtmlOpen) /\ attrs(i) # {}
        starts == {i \in 1..Len(html) : ok(i)}
    IN  IF starts = {} THEN [found |-> FALSE, value |-> <<>>]
        ELSE LET k == Greatest(attrs(Least(starts)))
             IN  [found |-> TRUE,
                  value |-> Slice(html, k + Len(LangEq),
                                  IndexFrom(html, QUOT, k + Len(LangEq)) - 1)]

\* s.split('-')[0]
BeforeHyphen(s) ==
    IF IndexFrom(s, HYPHEN, 1) = 0 THEN s
    ELSE Slice(s, 1, IndexFrom(s, HYPHEN, 1) - 1)

\* langMatch[1]?.split('-')[0] || 'en'
PageLang(html) ==
    LET langMatch == LangMatch(html)
    IN  IF langMatch.found /\ BeforeHyphen(langMatch.value) # <<>>
        THEN BeforeHyphen(langMatch.value)
        ELSE LangEn

\* A variant that counts both glyphs: (description.match(/[★☆]/g) || []).length
RECURSIVE CountGlyphs(_)
CountGlyphs(s) ==
    IF s = <<>> THEN 0
    ELSE (IF Head(s) \in {STAR, EMPTYSTAR} THEN 1 ELSE 0) + CountGlyphs(Tail(s))

\* (description.match(/★/g) || []).length
RECURSIVE CountStars(_)
CountStars(s) ==
    IF s = <<>> THEN 0
    ELSE (IF Head(s) = STAR THEN 1 ELSE 0) + CountStars(Tail(s))

(***************************************************************************)
(* Inline extraction of src/unnamed/part_000                               *)
(***************************************************************************)
ItemPropEq == <<105, 116, 101, 109, 112, 114, 111, 112, 61>>  \* 'itemprop='
NameWord == <<110, 97, 109, 101>>                             \* 'name'

IsQuoteChar(c) == c \in {APOS, QUOT}

\* html.match(/<meta[^>]*content=['"]([^'"]*)['"][^>]*itemprop=['"]name['"]/i):
\* [found, value].  The value ends at the first quote character of either
\* kind after the opening one; the first [^>]* is greedy, so the last
\* workable "content=" inside the tag is the one taken.
NameMatch(html) ==
    LET n == Len(html)
        from(i) == i + Len(MetaOpen)
        open(c) == c + Len(ContentEq)
        quotes(c) == {r \in (open(c) + 1)..n : IsQuoteChar(html[r])}
        tail(r) == \E k \in (r + 1)..n :
                      /\ \A g \in (r + 1)..(k - 1) : html[g] # GT
                      /\ MatchesAtI(html, k, ItemPropEq)
                      /\ k + Len(ItemPropEq) + Len(NameWord) + 1 <= n
                      /\ IsQuoteChar(html[k + Len(ItemPropEq)])
                      /\ MatchesAtI(html, k + Len(ItemPropEq) + 1, NameWord)
                      /\ IsQuoteChar(html[k + Len(ItemPropEq) + Len(NameWord) + 1])
        cands(i) == {c \in from(i)..n :
                        /\ \A g \in from(i)..(c - 1) : html[g] # GT
                        /\ MatchesAtI(html, c, ContentEq)
                        /\ open(c) <= n
                        /\ IsQuoteChar(html[open(c)])
                        /\ quotes(c) # {}
                        /\ tail(Least(quotes(c)))}
        ok(i) == MatchesAtI(html, i, MetaOpen) /\ cands(i) # {}
        starts == {i \in 1..n : ok(i)}
    IN  IF starts = {} THEN [found |-> FALSE, value |-> <<>>]
        ELSE LET c == Greatest(cands(Least(starts)))
             IN  [found |-> TRUE,
                  value |-> Slice(html, open(c) + 1, Least(quotes(c)) - 1)]

\* The first index >= i of s that holds no rating glyph (Len(s) + 1 if none).
RECURSIVE SkipStars(_, _)
SkipStars(s, i) ==
    IF i <= Len(s) /\ s[i] \in {STAR, EMPTYSTAR} THEN SkipStars(s, i + 1) ELSE i

\* The first index >= i of s that holds no white space (Len(s) + 1 if none).
RECURSIVE SkipSpace(_, _)
SkipSpace(s, i) ==
    IF i <= Len(s) /\ IsWhiteSpace(s[i]) THEN SkipSpace(s, i + 1) ELSE i

\* fullContent.match(/^[★☆]+\s*"(.*?)"$/): [found, inner].
ReviewMatch(fullContent) ==
    LET n == Len(fullContent)
        q == SkipSpace(fullContent, SkipStars(fullContent, 1))
    IN  IF /\ SkipStars(fullContent, 1) > 1
           /\ q < n
           /\ fullContent[q] = QUOT
           /\ fullContent[n] = QUOT
           /\ DotSpan(fullContent, q + 1, n - 1)
        THEN [found |-> TRUE, inner |-> Slice(fullContent, q + 1, n - 1)]
        ELSE [found |-> FALSE, inner |-> <<>>]

\* The table built from utils/languages.json, in the file's key order; each
\* pattern is compiled by new RegExp(config.pattern), that is, without flags.
LANGUAGE_PATTERNS ==
    << [lang |-> LangEn, prefix |-> EnglishPrefix, connector |-> EnglishConnector],
       [lang |-> LangDe, prefix |-> GermanPrefix, connector |-> GermanConnector] >>

\* The loop over Object.entries(LANGUAGE_PATTERNS), from entry k on: the first
\* entry whose pattern matches the name decides the three results.
RECURSIVE MatchLanguages(_, _)
MatchLanguages(name, k) ==
    IF k > Len(LANGUAGE_PATTERNS)
    THEN [businessName |-> <<>>, reviewerName |-> <<>>, detectedLanguage |-> <<>>]
    ELSE LET match == TemplateMatch(name, LANGUAGE_PATTERNS[k].prefix,
                                    LANGUAGE_PATTERNS[k].connector, FALSE)
         IN  IF match.found
             THEN [businessName |-> decodeHTMLEntities(Trim(match.g1)),
                   reviewerName |-> decodeHTMLEntities(Trim(match.g2)),
                   detectedLanguage |-> LANGUAGE_PATTERNS[k].lang]
             ELSE MatchLanguages(name, k + 1)

(***************************************************************************)
(* The parse pass of each handler: from the fetched text to the handler's  *)
(* local variables.                                                        *)
(***************************************************************************)
\* src/functions/index.js, between "await response.text()" and res.status(200)
ParseFunctions(html) ==
    LET pageLang == PageLang(html)
        nameContent == extractMetaContent(html, ItemPropName)
        description == extractMetaContent(html, ItemPropDescription)
        title == parseReviewTitle(nameContent)
    IN  [pageLang |-> pageLang,
         name |-> nameContent,
         description |-> description,
         businessName |-> title.businessName,
         reviewerName |-> title.reviewerName,
         detected |-> pageLang,
         rating |-> CountStars(description),
         reviewContent |-> getReviewContent(description, pageLang)]

\* src/unnamed/part_000, between "await response.text()" and res.status(200)
ParsePart000(html) ==
    LET pageLang == PageLang(html)
        contentMatch == ContentMatch(MetaTag(html, ItemPropDescription))
        fullContent == IF contentMatch.found THEN contentMatch.value ELSE <<>>
        reviewMatch == ReviewMatch(fullContent)
        nameMatch == NameMatch(html)
        name == IF nameMatch.found THEN nameMatch.value ELSE <<>>
        matched == MatchLanguages(name, 1)
    IN  [pageLang |-> pageLang,
         name |-> name,
         description |-> fullContent,
         businessName |-> matched.businessName,
         reviewerName |-> matched.reviewerName,
         detected |-> IF matched.detectedLanguage # <<>>
                      THEN matched.detectedLanguage ELSE pageLang,
         rating |-> CountStars(fullContent),
         reviewContent |-> IF reviewMatch.found
                           THEN decodeHTMLEntities(reviewMatch.inner)
                           ELSE <<>>]

Parse(v, html) ==
    IF v = "functions/index.js" THEN ParseFunctions(html) ELSE ParsePart000(html)

(***************************************************************************)
(* The environment: requests, fetch outcomes and pages.                    *)
(***************************************************************************)
MaxStars == 2       \* filled glyphs in a description: 0..MaxStars
MaxEmpty == 1       \* empty glyphs after them: 0..MaxEmpty

Methods == {"GET", "OPTIONS", "POST"}

\* req.query.url: absent, present and empty, or an absolute URL.
Urls == {[present |-> FALSE, value |-> ""],
         [present |-> TRUE, value |-> ""],
         [present |-> TRUE, value |-> "https://maps.example/review/1"]}

\* Messages of the errors with which fetch() rejects.
NetworkFailure == "request failed, reason: connect ECONNREFUSED"
Timeout == "request failed, reason: connect ETIMEDOUT"
FetchErrors == {NetworkFailure, Timeout}

\* Message of the error with which response.text() rejects.
ReadErrors == {"Premature close"}

\* Status codes of the responses with which fetch() resolves.
Statuses == {200, 404}

\* What the site's server does to text it puts into a double-quoted
\* attribute value.
RECURSIVE EscapeAttr(_)
EscapeAttr(s) ==
    IF s = <<>> THEN <<>>
    ELSE (CASE Head(s) = QUOT -> <<38, 113, 117, 111, 116, 59>>     \* '&quot;'
            [] Head(s) = AMP  -> <<38, 97, 109, 112, 59>>           \* '&amp;'
            [] Head(s) = APOS -> <<38, 35, 51, 57, 59>>             \* '&#39;'
            [] Head(s) = 10   -> <<38, 35, 49, 48, 59>>             \* '&#10;'
            [] OTHER -> <<Head(s)>>) \o EscapeAttr(Tail(s))

Business ==
    { <<74, 111, 101, 39, 115, 32, 80, 105, 122, 122, 97>>,       \* "Joe's Pizza"
      <<67, 97, 102, 233, 32, 77, 105, 116, 116, 101>>,           \* 'Caf\xe9 Mitte'
      <<83, 116, 97, 110, 100, 32, 98, 121, 32, 77, 101>>,        \* 'Stand by Me'
      <<72, 97, 117, 115, 32, 118, 111, 110, 32, 77, 97, 120>>,   \* 'Haus von Max'
      <<32, 65, 110, 110, 32>> }                                  \* ' Ann '

Reviewers ==
    { <<74, 97, 110, 101, 32, 68, 111, 101>>,                     \* 'Jane Doe'
      <<72, 97, 110, 115, 32, 77, 252, 108, 108, 101, 114>> }     \* 'Hans M\xfcller'

\* A name metadata text: prefix, business, connector, reviewer.
Titles ==
    [prefix : {EnglishPrefix}, business : Business,
     connector : {EnglishConnector}, reviewer : Reviewers]
    \cup
    [prefix : {GermanPrefix}, business : Business,
     connector : {GermanConnector}, reviewer : Reviewers]
    \cup
    \* upper-case English phrases
    [prefix : {<<71, 79, 79, 71, 76, 69, 32, 82, 69, 86, 73, 69, 87, 32, 79, 70, 32>>},
     business : {<<67, 97, 102, 233, 32, 77, 105, 116, 116, 101>>},
     connector : {<<32, 66, 89, 32>>},
     reviewer : {<<74, 97, 110, 101, 32, 68, 111, 101>>}]
    \cup
    \* 'Pizza Joe - Google Maps': no template
    [prefix : {<<>>},
     business : {<<80, 105, 122, 122, 97, 32, 74, 111, 101>>},
     connector : {<<32, 45, 32>>},
     reviewer : {<<71, 111, 111, 103, 108, 101, 32, 77, 97, 112, 115>>}]

TitleText(t) == t.prefix \o t.business \o t.connector \o t.reviewer

NoTitle == [prefix |-> <<>>, business |-> <<>>, connector |-> <<>>, reviewer |-> <<>>]
TitleJoe ==
    [prefix |-> EnglishPrefix,
     business |-> <<74, 111, 101, 39, 115, 32, 80, 105, 122, 122, 97>>,
     connector |-> EnglishConnector,
     reviewer |-> <<74, 97, 110, 101, 32, 68, 111, 101>>]

\* How the name meta tag is written:
\*   "raw"            <meta content="T" itemprop="name">, T verbatim
\*   "escaped"        the same with T attribute-escaped
\*   "itemprop-first" <meta itemprop="name" content="T">, T attribute-escaped
\*   "absent"         no such tag
NameForms == {"raw", "escaped", "itemprop-first", "absent"}

RenderName(form, t) ==
    CASE form = "raw" ->
            <<60, 109, 101, 116, 97, 32, 99, 111, 110, 116, 101, 110, 116, 61>>  \* '<meta content='
            \o <<QUOT>> \o TitleText(t) \o <<QUOT>>
            \o <<32, 105, 116, 101, 109, 112, 114, 111, 112, 61, 34, 110, 97, 109, 101, 34, 62>>  \* ' itemprop="name">'
      [] form = "escaped" ->
            <<60, 109, 101, 116, 97, 32, 99, 111, 110, 116, 101, 110, 116, 61>>
            \o <<QUOT>> \o EscapeAttr(TitleText(t)) \o <<QUOT>>
            \o <<32, 105, 116, 101, 109, 112, 114, 111, 112, 61, 34, 110, 97, 109, 101, 34, 62>>
      [] form = "itemprop-first" ->
            <<60, 109, 101, 116, 97, 32, 105, 116, 101, 109, 112, 114, 111, 112, 61, 34, 110, 97, 109, 101, 34, 32, 99, 111, 110, 116, 101, 110, 116, 61>>  \* '<meta itemprop="name" content='
            \o <<QUOT>> \o EscapeAttr(TitleText(t)) \o <<QUOT, GT>>
      [] OTHER -> <<>>

\* The text that follows the rating glyphs in a description.
DescBodies ==
    { <<>>,
      <<32, 34, 71, 114, 101, 97, 116, 32, 115, 101, 114, 118, 105, 99, 101, 33, 34>>,  \* ' "Great service!"'
      <<32, 34, 34>>,                                              \* ' ""'
      <<32, 71, 114, 101, 97, 116>>,                               \* ' Great'
      <<32, 34, 71, 114, 101>>,                                    \* ' "Gre'
      <<32, 34, 84, 111, 112, 10, 102, 97, 115, 116, 34>> }        \* ' "Top\nfast"'

RECURSIVE Repeat(_, _)
Repeat(c, n) == IF n = 0 THEN <<>> ELSE <<c>> \o Repeat(c, n - 1)

\* A description text: filled glyphs, empty glyphs, body.
Descriptions ==
    {Repeat(STAR, f) \o Repeat(EMPTYSTAR, e) \o b :
        f \in 0..MaxStars, e \in 0..MaxEmpty, b \in DescBodies}

DescTypical ==
    Repeat(STAR, MaxStars)
    \o <<32, 34, 71, 114, 101, 97, 116, 32, 115, 101, 114, 118, 105, 99, 101, 33, 34>>

\* How the description meta tag is written:
\*   "double"  <meta content="D" itemprop="description">, D attribute-escaped
\*   "single"  <meta content='D' itemprop="description">, D verbatim
\*   "absent"  no such tag
DescForms == {"double", "single", "absent"}

RenderDesc(form, d) ==
    CASE form = "double" ->
            <<60, 109, 101, 116, 97, 32, 99, 111, 110, 116, 101, 110, 116, 61>>
            \o <<QUOT>> \o EscapeAttr(d) \o <<QUOT>>
            \o <<32, 105, 116, 101, 109, 112, 114, 111, 112, 61, 34, 100, 101, 115, 99, 114, 105, 112, 116, 105, 111, 110, 34, 62>>  \* ' itemprop="description">'
      [] form = "single" ->
            <<60, 109, 101, 116, 97, 32, 99, 111, 110, 116, 101, 110, 116, 61>>
            \o <<APOS>> \o d \o <<APOS>>
            \o <<32, 105, 116, 101, 109, 112, 114, 111, 112, 61, 34, 100, 101, 115, 99, 114, 105, 112, 116, 105, 111, 110, 34, 62>>
      [] OTHER -> <<>>

\* The opening html tag: the page may have none (tag FALSE), or one without
\* a lang attribute (hasLang FALSE), or one with lang="<lang>".
HtmlTags ==
    { [tag |-> FALSE, hasLang |-> FALSE, lang |-> <<>>],
      [tag |-> TRUE, hasLang |-> FALSE, lang |-> <<>>],
      [tag |-> TRUE, hasLang |-> TRUE, lang |-> <<>>],
      [tag |-> TRUE, hasLang |-> TRUE, lang |-> LangDe],
      [tag |-> TRUE, hasLang |-> TRUE, lang |-> <<101, 110, 45, 85, 83>>],  \* 'en-US'
      [tag |-> TRUE, hasLang |-> TRUE, lang |-> <<102, 114>>] }             \* 'fr'

RenderHtmlTag(h) ==
    IF ~h.tag THEN <<>>
    ELSE IF ~h.hasLang THEN HtmlOpen \o <<GT>>
    ELSE HtmlOpen \o <<SPACE>> \o LangEq \o h.lang \o <<QUOT, GT>>

HtmlEnUs == [tag |-> TRUE, hasLang |-> TRUE, lang |-> <<101, 110, 45, 85, 83>>]
HtmlDe == [tag |-> TRUE, hasLang |-> TRUE, lang |-> LangDe]

\* The pages the fetch may return, each by its parts: every title in every
\* form, every opening tag, and every description in both languages.
Pages ==
    [html : {HtmlEnUs}, nameForm : NameForms \ {"absent"}, title : Titles,
     descForm : {"double"}, desc : {DescTypical}]
    \cup
    [html : HtmlTags, nameForm : {"absent"}, title : {NoTitle},
     descForm : {"double", "absent"}, desc : {DescTypical}]
    \cup
    [html : {HtmlDe, HtmlEnUs}, nameForm : {"escaped"}, title : {TitleJoe},
     descForm : {"double", "single"}, desc : Descriptions]

\* The text of a page.
Render(page) ==
    RenderHtmlTag(page.html)
    \o <<60, 104, 101, 97, 100, 62>>                               \* '<head>'
    \o RenderName(page.nameForm, page.title)
    \o RenderDesc(page.descForm, page.desc)
    \o <<60, 47, 104, 101, 97, 100, 62>>                           \* '</head>'

(***************************************************************************)
(* googleReviewScraper: the request handler.                               *)
(***************************************************************************)
HandlerSources == {"functions/index.js", "unnamed/part_000"}

CorsHeaders ==
    [origin |-> "*", methods |-> "GET", allowHeaders |-> "Content-Type"]

NoFetch == [kind |-> "none", status |-> 0, message |-> "", page |-> <<>>]
NoLocals == <<>>

\* A variant that tests url === undefined.
UrlAbsentOnly(url) == ~url.present

\* if (!url): an absent or empty parameter is falsy.
UrlMissing(url) == ~url.present \/ url.value = ""

\* The headers of the outbound GET; ua is the index drawn by Math.random().
FetchRequest(url, ua) ==
    [url |-> url,
     userAgent |-> ua,
     accept |-> "text/html,application/xhtml+xml,application/xml;q=0.9,image/webp,*/*;q=0.8",
     acceptLanguage |-> "en-US,en;q=0.5",
     acceptEncoding |-> "gzip, deflate, br"]

userAgents == 1..2

\* res.status(204).send('')
OptionsResponse == [status |-> 204, body |-> [empty |-> TRUE]]

\* res.status(400).json({ error: 'URL parameter is required' })
MissingUrlResponse ==
    [status |-> 400, body |-> [error |-> "URL parameter is required"]]

\* A variant of the catch block that hides the error's message.
FailureResponseGeneric(message) ==
    [status |-> 500,
     body |-> [success |-> FALSE,
               error |-> "Failed to scrape data",
               details |-> [message |-> "Internal error"]]]

\* The catch block: res.status(500).json({...})
FailureResponse(message) ==
    [status |-> 500,
     body |-> [success |-> FALSE,
               error |-> "Failed to scrape data",
               details |-> [message |-> message]]]

\* const data = {...}
Data(l) ==
    [businessName |-> l.businessName,
     reviewerName |-> l.reviewerName,
     rating |-> l.rating,
     reviewContent |-> l.reviewContent,
     language |-> [detected |-> l.detected, pageLang |-> l.pageLang]]

\* res.status(200).json({...}); rawMeta is reported by functions/index.js only.
SuccessResponse(v, l, url, statusCode) ==
    [status |-> 200,
     body |-> [success |-> TRUE,
               data |-> Data(l),
               debugInfo |->
                   [url |-> url,
                    hasData |-> [businessName |-> l.businessName # <<>>,
                                 reviewerName |-> l.reviewerName # <<>>,
                                 reviewContent |-> l.reviewContent # <<>>],
                    statusCode |-> statusCode,
                    rawMeta |-> IF v = "functions/index.js"
                                THEN <<[name |-> l.name, description |-> l.description]>>
                                ELSE <<>>]]]

\* A variant of the OPTIONS branch without its return: after the 204 the
\* handler goes on to the url check and the fetch.
HandleOptionsNoReturn ==
    /\ pc = "entry"
    /\ req.method = "OPTIONS"
    /\ headers' = CorsHeaders
    /\ IF UrlMissing(req.url)
       THEN /\ responses' = responses \o <<OptionsResponse, MissingUrlResponse>>
            /\ pc' = "done"
            /\ UNCHANGED <<fetches, fetched>>
       ELSE /\ responses' = Append(responses, OptionsResponse)
            /\ fetches' = Append(fetches, FetchRequest(req.url.value, 1))
            /\ fetched' = [NoFetch EXCEPT !.kind = "pending"]
            /\ pc' = "awaitFetch"
    /\ UNCHANGED <<variant, req, locals, callVars>>

\* The OPTIONS branch: 204, then return.
HandleOptions ==
    /\ pc = "entry"
    /\ req.method = "OPTIONS"
    /\ headers' = CorsHeaders
    /\ responses' = Append(responses, OptionsResponse)
    /\ pc' = "done"
    /\ UNCHANGED <<variant, req, fetches, fetched, locals, callVars>>

\* The missing-url branch: 400, then return.
RejectMissingUrl ==
    /\ pc = "entry"
    /\ req.method # "OPTIONS"
    /\ UrlMissing(req.url)
    /\ headers' = CorsHeaders
    /\ responses' = Append(responses, MissingUrlResponse)
    /\ pc' = "done"
    /\ UNCHANGED <<variant, req, fetches, fetched, locals, callVars>>

\* Entering the try block: the outbound fetch is issued and awaited.
IssueFetch ==
    /\ pc = "entry"
    /\ req.method # "OPTIONS"
    /\ ~UrlMissing(req.url)
    /\ headers' = CorsHeaders
    /\ \E ua \in userAgents :
          fetches' = Append(fetches, FetchRequest(req.url.value, ua))
    /\ fetched' = [NoFetch EXCEPT !.kind = "pending"]
    /\ pc' = "awaitFetch"
    /\ UNCHANGED <<variant, req, responses, locals, callVars>>

\* fetch() rejects: the catch block answers.
FetchRejects ==
    /\ pc = "awaitFetch"
    /\ \E m \in FetchErrors :
          /\ fetched' = [fetched EXCEPT !.kind = "rejected", !.message = m]
          /\ responses' = Append(responses, FailureResponse(m))
    /\ pc' = "done"
    /\ UNCHANGED <<variant, req, headers, fetches, locals, callVars>>

\* fetch() resolves with a response of any status; its body is awaited.
FetchResolves ==
    /\ pc = "awaitFetch"
    /\ \E st \in Statuses :
          fetched' = [fetched EXCEPT !.kind = "response", !.status = st]
    /\ pc' = "awaitText"
    /\ UNCHANGED <<variant, req, headers, fetches, responses, locals, callVars>>

\* response.text() rejects: the catch block answers.
TextRejects ==
    /\ pc = "awaitText"
    /\ \E m \in ReadErrors :
          /\ fetched' = [fetched EXCEPT !.kind = "unreadable", !.message = m]
          /\ responses' = Append(responses, FailureResponse(m))
    /\ pc' = "done"
    /\ UNCHANGED <<variant, req, headers, fetches, locals, callVars>>

\* response.text() resolves: the page is parsed and the 200 response sent.
TextResolves ==
    /\ pc = "awaitText"
    /\ \E page \in Pages :
          LET l == Parse(variant, Render(page)) IN
          /\ fetched' = [fetched EXCEPT !.kind = "text", !.page = <<page>>]
          /\ locals' = <<l>>
          /\ responses' = Append(responses,
                 SuccessResponse(variant, l, req.url.value, fetched.status))
    /\ pc' = "done"
    /\ UNCHANGED <<variant, req, headers, fetches, callVars>>

CallIdle ==
    /\ callFn = "none"
    /\ callArgs = <<>>
    /\ returned = FALSE
    /\ ret = <<>>

Init ==
    /\ variant \in HandlerSources
    /\ req \in [method : Methods, url : Urls]
    /\ pc = "entry"
    /\ headers = <<>>
    /\ fetches = <<>>
    /\ fetched = NoFetch
    /\ responses = <<>>
    /\ locals = NoLocals
    /\ CallIdle

Next ==
    \/ HandleOptions
    \/ RejectMissingUrl
    \/ IssueFetch
    \/ FetchRejects
    \/ FetchResolves
    \/ TextRejects
    \/ TextResolves

Spec == Init /\ [][Next]_vars

FairSpec == Spec /\ WF_vars(Next)

(***************************************************************************)
(* Harnesses that apply one pure function to inputs drawn from bounded     *)
(* sets.  The handler is idle in them.                                     *)
(***************************************************************************)
MaxTextLen == 5     \* length of the texts given to decodeHTMLEntities
MaxDescLen == 4     \* length of the descriptions given to getReviewContent
MaxOver == 70       \* numeric references up to MaxOver above 65535

HandlerIdle ==
    /\ variant = "functions/index.js"
    /\ req = [method |-> "GET", url |-> [present |-> FALSE, value |-> ""]]
    /\ pc = "idle"
    /\ headers = <<>>
    /\ fetches = <<>>
    /\ fetched = NoFetch
    /\ responses = <<>>
    /\ locals = NoLocals

\* All sequences over alphabet A of length at most n.
SeqsUpTo(A, n) == UNION {[1..k -> A] : k \in 0..n}

\* '&', '#', ';', 'l', 't', '6': enough for "&lt;", "&#6;", "&#66;" and
\* stray characters around them.
DecodeAlphabet == {AMP, HASH, SEMI, 108, 116, 54}

\* The decimal digits of n.
RECURSIVE Digits(_)
Digits(n) == IF n < 10 THEN <<48 + n>> ELSE Digits(n \div 10) \o <<48 + (n % 10)>>

\* The text "&#n;".
NumRef(n) == <<AMP, HASH>> \o Digits(n) \o <<SEMI>>

\* Code points given as numeric references: printable Basic Latin, Latin-1,
\* the rating glyphs, the top of the 16-bit range and the supplementary
\* planes just above it, an emoji and the last code point.
CodePointSamples ==
    (32..126) \cup (160..255) \cup {STAR, EMPTYSTAR}
    \cup ((Uint16 - 3)..(Uint16 + MaxOver)) \cup {128512, 1114111}

\* ' ', '"', 'a', line feed and the two rating glyphs.
ContentAlphabet == {STAR, EMPTYSTAR, QUOT, SPACE, 97, 10}

Languages == {LangDe, LangEn, <<102, 114>>}                     \* 'de', 'en', 'fr'

InitDecode ==
    /\ HandlerIdle
    /\ callFn = "decodeHTMLEntities"
    /\ callArgs \in {<<t>> : t \in SeqsUpTo(DecodeAlphabet, MaxTextLen)}
    /\ returned = FALSE
    /\ ret = <<>>

InitNumeric ==
    /\ HandlerIdle
    /\ callFn = "decodeHTMLEntities"
    /\ callArgs \in {<<NumRef(n)>> : n \in CodePointSamples}
    /\ returned = FALSE
    /\ ret = <<>>

CallDecode ==
    /\ callFn = "decodeHTMLEntities"
    /\ ~returned
    /\ ret' = decodeHTMLEntities(callArgs[1])
    /\ returned' = TRUE
    /\ UNCHANGED <<handlerVars, callFn, callArgs>>

InitContent ==
    /\ HandlerIdle
    /\ callFn = "getReviewContent"
    /\ callArgs \in {<<d, l>> : d \in SeqsUpTo(ContentAlphabet, MaxDescLen),
                                l \in Languages}
    /\ returned = FALSE
    /\ ret = <<>>

CallContent ==
    /\ callFn = "getReviewContent"
    /\ ~returned
    /\ ret' = getReviewContent(callArgs[1], callArgs[2])
    /\ returned' = TRUE
    /\ UNCHANGED <<handlerVars, callFn, callArgs>>

SpecDecode == InitDecode /\ [][CallDecode]_vars
SpecNumeric == InitNumeric /\ [][CallDecode]_vars
SpecContent == InitContent /\ [][CallContent]_vars

(***************************************************************************)
(* Properties                                                              *)
(***************************************************************************)
Done == pc = "done"
Page == fetched.page[1]
Answer == responses[1]
Parsed == Done /\ fetched.kind = "text"

\* The number of indices of s that hold a character of set G.
Occurrences(s, G) == Cardinality({i \in DOMAIN s : s[i] \in G})

\* C1 as stated: a fetch that ends in a network failure, a timeout or a
\* non-2xx response status is answered with 500, success = false and
\* error = "Failed to scrape data", and no second fetch is issued.
C1_FailedFetchAnswered500 ==
    (Done /\ (\/ fetched.kind = "rejected"
              \/ (fetched.kind \in {"text", "unreadable"}
                  /\ fetched.status \notin 200..299)))
    => /\ Len(responses) = 1
       /\ Answer.status = 500
       /\ Answer.body.success = FALSE
       /\ Answer.body.error = "Failed to scrape data"
       /\ Len(fetches) = 1

\* C1 amended: a fetch that rejects (network failure, timeout) or whose body
\* cannot be read is answered with 500, success = false, error = "Failed to
\* scrape data" and details.message = the error's message; a response of any
\* status, 2xx or not, whose body is read is answered with 200 and
\* debugInfo.statusCode = that status; at most one fetch is ever issued.
C1_RejectedFetchAnswered500 ==
    /\ Len(fetches) <= 1
    /\ (Done /\ fetched.kind \in {"rejected", "unreadable"})
       => /\ responses =
                <<[status |-> 500,
                   body |-> [success |-> FALSE,
                             error |-> "Failed to scrape data",
                             details |-> [message |-> fetched.message]]]>>
          /\ Len(fetches) = 1
    /\ Parsed
       => /\ Len(responses) = 1
          /\ Answer.status = 200
          /\ Answer.body.success = TRUE
          /\ Answer.body.debugInfo.statusCode = fetched.status

\* A request whose fetch timed out has been answered.
C1_Witness ==
    /\ Done
    /\ fetched.kind = "rejected"
    /\ fetched.message = Timeout
    /\ Len(responses) = 1

\* C2: a non-OPTIONS request whose url parameter is absent or empty is
\* answered with 400 and { error: "URL parameter is required" }, and no
\* fetch is ever issued for it.
C2_MissingUrlAnswered400 ==
    (req.method # "OPTIONS" /\ (~req.url.present \/ req.url.value = ""))
    => /\ fetches = <<>>
       /\ fetched.kind = "none"
       /\ Done => responses =
                    <<[status |-> 400,
                       body |-> [error |-> "URL parameter is required"]]>>

\* A POST with an empty url parameter has been answered.
C2_Witness ==
    /\ Done
    /\ req.method = "POST"
    /\ req.url.present
    /\ req.url.value = ""
    /\ Len(responses) = 1

\* C3 as stated: in every 200 response data.reviewContent is a non-empty
\* string.
C3_ReviewContentNeverEmpty ==
    (Done /\ Len(responses) = 1 /\ Answer.status = 200)
    => Answer.body.data.reviewContent # <<>>

\* The page's name metadata matches no locale template.
NoTemplate(page) == page.nameForm = "absent" \/ page.title.prefix = <<>>

\* C4: once the body text has been read, the request is answered with 200
\* and success = true whatever could not be extracted; data holds all of
\* businessName, reviewerName, rating, reviewContent, language.detected and
\* language.pageLang; a name that matches no template gives empty names.
C4_ExtractionMissAnswered200 ==
    Parsed
    => /\ Len(responses) = 1
       /\ Answer.status = 200
       /\ Answer.body.success = TRUE
       /\ DOMAIN Answer.body.data =
             {"businessName", "reviewerName", "rating", "reviewContent", "language"}
       /\ DOMAIN Answer.body.data.language = {"detected", "pageLang"}
       /\ Answer.body.data.rating \in Nat
       /\ Answer.body.data.language.pageLang # <<>>
       /\ Answer.body.data.language.detected # <<>>
       /\ NoTemplate(Page)
          => /\ Answer.body.data.businessName = <<>>
             /\ Answer.body.data.reviewerName = <<>>

\* A page whose name metadata matches no template has been answered.
C4_Witness ==
    /\ Parsed
    /\ Page.nameForm = "raw"
    /\ Page.title.prefix = <<>>
    /\ Len(responses) = 1
    /\ Answer.status = 200

\* C5 as stated: for a name tag <meta content="P X C Y" itemprop="name">
\* with (P, C) the English or the German pair and X, Y free of double
\* quotes, businessName = X and reviewerName = Y, trimmed.
C5_TitleSplitsIntoNames ==
    (/\ Parsed
     /\ Page.nameForm = "raw"
     /\ <<Page.title.prefix, Page.title.connector>>
            \in {<<EnglishPrefix, EnglishConnector>>, <<GermanPrefix, GermanConnector>>}
     /\ Occurrences(Page.title.business, {QUOT}) = 0
     /\ Occurrences(Page.title.reviewer, {QUOT}) = 0)
    => /\ Answer.body.data.businessName = Trim(Page.title.business)
       /\ Answer.body.data.reviewerName = Trim(Page.title.reviewer)

\* What C6 says getReviewContent returns for description d and language l.
C6_Expected(d, l) ==
    LET w == Trim(StripStars(d))
    IN  IF w = <<>>
        THEN (IF l = LangDe THEN PlaceholderDe ELSE PlaceholderEn)
        ELSE IF Len(w) >= 2 /\ w[1] = QUOT /\ w[Len(w)] = QUOT
        THEN Trim(Slice(w, 2, Len(w) - 1))
        ELSE w

\* C6 as stated: with w the description without its rating glyphs, trimmed:
\* the placeholder of the language when w is empty; else the trimmed text
\* between the quotes when w begins and ends with a double quote; else w.
C6_ContentBranches ==
    (callFn = "getReviewContent" /\ returned)
    => ret = C6_Expected(callArgs[1], callArgs[2])

\* On descriptions that hold no line terminator getReviewContent returns
\* what C6 says.
C6_BranchesOnOneLine ==
    (/\ callFn = "getReviewContent"
     /\ returned
     /\ \A i \in DOMAIN callArgs[1] : ~IsLineTerminator(callArgs[1][i]))
    => ret = C6_Expected(callArgs[1], callArgs[2])

\* C7 as stated: data.rating is the number of rating glyphs, filled or
\* empty, in the description.
C7_RatingCountsGlyphs ==
    Parsed
    => Answer.body.data.rating =
          Occurrences(locals[1].description, {STAR, EMPTYSTAR})

\* C7 amended: data.rating is the number of filled stars in the description
\* the handler extracted; empty stars are stripped from the review text but
\* not counted; the rating is 0 when the description holds no filled star.
C7_RatingCountsFilledStars ==
    Parsed
    => Answer.body.data.rating = Occurrences(locals[1].description, {STAR})

\* A description with filled and empty stars has been rated.
C7_Witness ==
    /\ Parsed
    /\ Occurrences(locals[1].description, {STAR}) = MaxStars
    /\ Occurrences(locals[1].description, {EMPTYSTAR}) = MaxEmpty
    /\ Answer.body.data.rating = MaxStars

\* The UTF-16 code units of the character with code point n.
CodePointUnits(n) ==
    IF n < Uint16 THEN <<n>>
    ELSE <<55296 + ((n - Uint16) \div 1024), 56320 + ((n - Uint16) % 1024)>>

\* The digits-then-';' tail of a decimal reference that starts at index i of
\* t: the index of its ';', or 0.
RefEnd(t, i) ==
    LET j == IndexFrom(t, SEMI, i)
    IN  IF /\ i + 3 <= Len(t)
           /\ t[i] = AMP
           /\ t[i + 1] = HASH
           /\ j >= i + 3
           /\ \A d \in (i + 2)..(j - 1) : IsDigit(t[d])
        THEN j ELSE 0

\* What C8 says decodeHTMLEntities returns: every table reference and every
\* decimal reference replaced, every other character kept.
RECURSIVE C8_Expected(_, _)
C8_Expected(t, i) ==
    IF i > Len(t) THEN <<>>
    ELSE IF \E key \in DOMAIN entities : MatchesAt(t, i, key)
    THEN LET key == CHOOSE k \in DOMAIN entities : MatchesAt(t, i, k)
         IN  entities[key] \o C8_Expected(t, i + Len(key))
    ELSE IF RefEnd(t, i) # 0
    THEN CodePointUnits(DigitsValue(SubSeq(t, i + 2, RefEnd(t, i) - 1)))
         \o C8_Expected(t, RefEnd(t, i) + 1)
    ELSE <<t[i]>> \o C8_Expected(t, i + 1)

\* C8 as stated: decodeHTMLEntities replaces every table reference and every
\* decimal reference by its character and leaves every other character
\* unchanged, also after a stray '&'.
C8_EveryReferenceDecoded ==
    (callFn = "decodeHTMLEntities" /\ returned)
    => ret = C8_Expected(callArgs[1], 1)

\* Where the response is sent only once all work of the request is over.
C9_Safety ==
    /\ Len(responses) <= 1
    /\ Len(fetches) <= 1
    /\ Done => Len(responses) = 1
    /\ responses # <<>>
       => /\ Done
          /\ req.method = "OPTIONS" => Answer.status = 204
          /\ (req.method # "OPTIONS" /\ (~req.url.present \/ req.url.value = ""))
             => Answer.status = 400
          /\ (req.method # "OPTIONS" /\ req.url.present /\ req.url.value # "")
             => Answer.status \in {200, 500}
          /\ Answer.status \in {204, 400} => fetches = <<>>
          /\ Answer.status \in {200, 500}
             => /\ Len(fetches) = 1
                /\ fetched.kind \in {"rejected", "unreadable", "text"}
          /\ Answer.status = 200 => fetched.kind = "text" /\ locals # NoLocals

\* C9: every request gets exactly one response (204 for OPTIONS, 400 for a
\* missing url, otherwise 200 or 500), at most one fetch is issued, a 200 or
\* 500 is sent only after the fetch has completed or failed, nothing of the
\* request's work happens after the response, and the response does come.
C9_OneResponseAfterAllWork ==
    /\ []C9_Safety
    /\ [][responses # <<>> => UNCHANGED <<fetches, fetched, responses, locals>>]_vars
    /\ <>Done

\* A fetched page has been answered with 200 after one fetch.
C9_Witness ==
    /\ Done
    /\ Len(fetches) = 1
    /\ fetched.kind = "text"
    /\ responses # <<>>
    /\ Answer.status = 200
    /\ req.method = "GET"

\* C10 as stated: a decimal reference &#N; outside the table decodes to the
\* character with code point N, also for N above 65535.
C10_NumericReferenceIsCodePoint ==
    (callFn = "decodeHTMLEntities" /\ returned)
    => \A n \in CodePointSamples :
          (callArgs[1] = NumRef(n) /\ NumRef(n) \notin DOMAIN entities)
          => ret = CodePointUnits(n)

====
